---- MODULE Spec2Model ----
(***************************************************************************)
(* Voice-activity segmenter (src/src/audio.rs) and the per-connection      *)
(* loop around it (src/src/websocket.rs, src/src/protocol.rs).             *)
(*                                                                         *)
(* Representation.                                                         *)
(*  - A block of samples (a decoded pcm slice, the audio_buffer) is kept   *)
(*    run-length encoded: a sequence of runs [v |-> value, n |-> count],   *)
(*    n > 0, adjacent runs holding different values.  Two blocks are equal *)
(*    as flat sample sequences iff their encodings are equal, so the       *)
(*    program's constants (8000, 16000*30, 5760) keep their real values.   *)
(*  - An f32 sample s/32768 is the pair <<s, 32768>> (the division is      *)
(*    exact in f32 for every i16 s).                                       *)
(*  - A string is a sequence of one-character strings.                     *)
(*  - Energies are the integer part of the f32 RMS; every frame the client *)
(*    of the model sends has an integral RMS.                              *)
(***************************************************************************)
EXTENDS Integers, Sequences, FiniteSets, TLC

\* ------------------------------------------------------------------------
\* Program constants
\* ------------------------------------------------------------------------
VAD_THRESHOLD_START == 800
VAD_THRESHOLD_END == 500
MAX_SILENCE_FRAMES == 12
MAX_BUFFER_SIZE == 16000 * 30
MIN_UTTERANCE_SAMPLES == 8000
PCM_BUFFER_LEN == 5760
NORM_DIVISOR == 32768

\* ------------------------------------------------------------------------
\* Bounds of the model
\* ------------------------------------------------------------------------
\* number of bursts (runs of identical messages) a client sends on a connection
MaxBursts == 3
\* the number of runs an unending client sends before it repeats its stream
MaxFirst == 1
\* the number of runs that may wait at the socket of one of several connections
MaxQueued == 2
\* the number of text frames inserted into an audio stream
MaxTexts == 1

\* ------------------------------------------------------------------------
\* Option values
\* ------------------------------------------------------------------------
None == <<>>
Some(x) == <<x>>

\* ------------------------------------------------------------------------
\* Run-length encoded sample blocks
\* ------------------------------------------------------------------------
\* Vec::push of n copies of v
PushRun(buf, v, n) ==
    IF n = 0 THEN buf
    ELSE IF buf # <<>> /\ buf[Len(buf)].v = v
         THEN [buf EXCEPT ![Len(buf)].n = @ + n]
         ELSE Append(buf, [v |-> v, n |-> n])

RECURSIVE BlockLen(_)
\* Vec::len / slice::len
BlockLen(b) == IF b = <<>> THEN 0 ELSE b[1].n + BlockLen(Tail(b))

\* Normalize dividing by i16::MAX instead of 32768
NormalizeByMax(sample) == <<sample, 32767>>

\* sample as f32 / 32768.0
Normalize(sample) == <<sample, NORM_DIVISOR>>

RECURSIVE add_samples_to_buffer(_, _)
\* AudioProcessor::add_samples_to_buffer
add_samples_to_buffer(audio_buffer, samples) ==
    IF samples = <<>> THEN audio_buffer
    ELSE add_samples_to_buffer(
             PushRun(audio_buffer, Normalize(samples[1].v), samples[1].n),
             Tail(samples))

\* ------------------------------------------------------------------------
\* calculate_rms
\* ------------------------------------------------------------------------
RECURSIVE ISqrtIn(_, _, _)
\* the largest r in lo..hi with r*r <= x (lo*lo <= x is given)
ISqrtIn(x, lo, hi) ==
    IF lo = hi THEN lo
    ELSE LET Half(mid) == IF mid * mid <= x THEN ISqrtIn(x, mid, hi)
                          ELSE ISqrtIn(x, lo, mid - 1)
         IN CHOOSE r \in { Half(mid) : mid \in {(lo + hi + 1) \div 2} } : TRUE

\* f32::sqrt, integer part (the sets bind x and mid to their values)
ISqrt(x) == CHOOSE r \in { ISqrtIn(v, 0, 32768) : v \in {x} } : TRUE

RECURSIVE SumQuot(_, _)
RECURSIVE SumRem(_, _)
\* sum of squares split as  len * SumQuot + SumRem  (keeps 32-bit arithmetic)
SumQuot(samples, len) ==
    IF samples = <<>> THEN 0
    ELSE ((samples[1].v * samples[1].v) \div len) * samples[1].n
         + SumQuot(Tail(samples), len)
SumRem(samples, len) ==
    IF samples = <<>> THEN 0
    ELSE ((samples[1].v * samples[1].v) % len) * samples[1].n
         + SumRem(Tail(samples), len)

\* calculate_rms
calculate_rms(samples) ==
    IF samples = <<>> THEN 0
    ELSE LET len == BlockLen(samples)
         IN ISqrt(SumQuot(samples, len) + SumRem(samples, len) \div len)

\* ------------------------------------------------------------------------
\* AudioProcessor
\* ------------------------------------------------------------------------
\* AudioProcessor::new (the Ok value)
NewAudioProcessor ==
    [audio_buffer |-> <<>>,
     vad_state |-> [silence_frames |-> 0, is_recording |-> FALSE, max_energy |-> 0]]

\* reset_state that leaves max_energy as it was
reset_state_keeps_peak(ap) ==
    [audio_buffer |-> <<>>,
     vad_state |-> [silence_frames |-> 0, is_recording |-> FALSE,
                    max_energy |-> ap.vad_state.max_energy]]

\* AudioProcessor::reset_state
reset_state(ap) ==
    [audio_buffer |-> <<>>,
     vad_state |-> [silence_frames |-> 0, is_recording |-> FALSE, max_energy |-> 0]]

\* start_recording that leaves max_energy as it was
start_recording_keeps_peak(ap, samples, energy) ==
    [audio_buffer |-> add_samples_to_buffer(ap.audio_buffer, samples),
     vad_state |-> [silence_frames |-> 0, is_recording |-> TRUE,
                    max_energy |-> ap.vad_state.max_energy]]

\* AudioProcessor::start_recording
start_recording(ap, samples, energy) ==
    [audio_buffer |-> add_samples_to_buffer(ap.audio_buffer, samples),
     vad_state |-> [silence_frames |-> 0, is_recording |-> TRUE, max_energy |-> energy]]

\* finalize_recording that accepts a buffer of exactly the minimum length
finalize_recording_ge(ap) ==
    IF BlockLen(ap.audio_buffer) >= MIN_UTTERANCE_SAMPLES
    THEN [ap |-> reset_state(ap), out |-> Some(ap.audio_buffer)]
    ELSE [ap |-> reset_state(ap), out |-> None]

\* AudioProcessor::finalize_recording: the processor after the call and the value returned
finalize_recording(ap) ==
    IF BlockLen(ap.audio_buffer) > MIN_UTTERANCE_SAMPLES
    THEN [ap |-> reset_state(ap), out |-> Some(ap.audio_buffer)]
    ELSE [ap |-> reset_state(ap), out |-> None]

\* check_buffer_overflow that clears the buffer and goes on recording
check_buffer_overflow_keeps_recording(ap) ==
    IF BlockLen(ap.audio_buffer) > MAX_BUFFER_SIZE
    THEN [ap EXCEPT !.audio_buffer = <<>>]
    ELSE ap

\* check_buffer_overflow that clears the buffer and the flag only
check_buffer_overflow_flag_only(ap) ==
    IF BlockLen(ap.audio_buffer) > MAX_BUFFER_SIZE
    THEN [ap EXCEPT !.audio_buffer = <<>>, !.vad_state.is_recording = FALSE]
    ELSE ap

\* check_buffer_overflow that stops recording without clearing the buffer
check_buffer_overflow_keeps_buffer(ap) ==
    IF BlockLen(ap.audio_buffer) > MAX_BUFFER_SIZE
    THEN [ap EXCEPT !.vad_state = [silence_frames |-> 0, is_recording |-> FALSE,
                                   max_energy |-> 0]]
    ELSE ap

\* AudioProcessor::check_buffer_overflow
check_buffer_overflow(ap) ==
    IF BlockLen(ap.audio_buffer) > MAX_BUFFER_SIZE THEN reset_state(ap) ELSE ap

\* update_vad_state that finalizes only after more than MAX_SILENCE_FRAMES quiet frames
update_vad_state_late(ap, samples, energy) ==
    IF ~ap.vad_state.is_recording
    THEN [ap |-> IF energy > VAD_THRESHOLD_START
                 THEN start_recording(ap, samples, energy)
                 ELSE ap,
          out |-> None]
    ELSE LET a1 == [ap EXCEPT !.audio_buffer = add_samples_to_buffer(@, samples)]
             a2 == IF energy > a1.vad_state.max_energy
                   THEN [a1 EXCEPT !.vad_state.max_energy = energy]
                   ELSE a1
             a3 == IF energy < VAD_THRESHOLD_END
                   THEN [a2 EXCEPT !.vad_state.silence_frames = @ + 1]
                   ELSE [a2 EXCEPT !.vad_state.silence_frames = 0]
         IN IF a3.vad_state.silence_frames > MAX_SILENCE_FRAMES
            THEN finalize_recording(a3)
            ELSE [ap |-> check_buffer_overflow(a3), out |-> None]

\* update_vad_state that never checks the buffer size
update_vad_state_unguarded(ap, samples, energy) ==
    IF ~ap.vad_state.is_recording
    THEN [ap |-> IF energy > VAD_THRESHOLD_START
                 THEN start_recording(ap, samples, energy)
                 ELSE ap,
          out |-> None]
    ELSE LET a1 == [ap EXCEPT !.audio_buffer = add_samples_to_buffer(@, samples)]
             a2 == IF energy > a1.vad_state.max_energy
                   THEN [a1 EXCEPT !.vad_state.max_energy = energy]
                   ELSE a1
             a3 == IF energy < VAD_THRESHOLD_END
                   THEN [a2 EXCEPT !.vad_state.silence_frames = @ + 1]
                   ELSE [a2 EXCEPT !.vad_state.silence_frames = 0]
         IN IF a3.vad_state.silence_frames >= MAX_SILENCE_FRAMES
            THEN finalize_recording(a3)
            ELSE [ap |-> a3, out |-> None]

\* update_vad_state that counts a frame of energy VAD_THRESHOLD_END as silence
update_vad_state_le(ap, samples, energy) ==
    IF ~ap.vad_state.is_recording
    THEN [ap |-> IF energy > VAD_THRESHOLD_START
                 THEN start_recording(ap, samples, energy)
                 ELSE ap,
          out |-> None]
    ELSE LET a1 == [ap EXCEPT !.audio_buffer = add_samples_to_buffer(@, samples)]
             a2 == IF energy > a1.vad_state.max_energy
                   THEN [a1 EXCEPT !.vad_state.max_energy = energy]
                   ELSE a1
             a3 == IF energy <= VAD_THRESHOLD_END
                   THEN [a2 EXCEPT !.vad_state.silence_frames = @ + 1]
                   ELSE [a2 EXCEPT !.vad_state.silence_frames = 0]
         IN IF a3.vad_state.silence_frames >= MAX_SILENCE_FRAMES
            THEN finalize_recording(a3)
            ELSE [ap |-> check_buffer_overflow(a3), out |-> None]

\* update_vad_state that starts recording at energy >= VAD_THRESHOLD_START
update_vad_state_ge(ap, samples, energy) ==
    IF ~ap.vad_state.is_recording
    THEN [ap |-> IF energy >= VAD_THRESHOLD_START
                 THEN start_recording(ap, samples, energy)
                 ELSE ap,
          out |-> None]
    ELSE LET a1 == [ap EXCEPT !.audio_buffer = add_samples_to_buffer(@, samples)]
             a2 == IF energy > a1.vad_state.max_energy
                   THEN [a1 EXCEPT !.vad_state.max_energy = energy]
                   ELSE a1
             a3 == IF energy < VAD_THRESHOLD_END
                   THEN [a2 EXCEPT !.vad_state.silence_frames = @ + 1]
                   ELSE [a2 EXCEPT !.vad_state.silence_frames = 0]
         IN IF a3.vad_state.silence_frames >= MAX_SILENCE_FRAMES
            THEN finalize_recording(a3)
            ELSE [ap |-> check_buffer_overflow(a3), out |-> None]

\* AudioProcessor::update_vad_state: the processor after the call and the value returned
update_vad_state(ap, samples, energy) ==
    IF ~ap.vad_state.is_recording
    THEN [ap |-> IF energy > VAD_THRESHOLD_START
                 THEN start_recording(ap, samples, energy)
                 ELSE ap,
          out |-> None]
    ELSE LET a1 == [ap EXCEPT !.audio_buffer = add_samples_to_buffer(@, samples)]
             a2 == IF energy > a1.vad_state.max_energy
                   THEN [a1 EXCEPT !.vad_state.max_energy = energy]
                   ELSE a1
             a3 == IF energy < VAD_THRESHOLD_END
                   THEN [a2 EXCEPT !.vad_state.silence_frames = @ + 1]
                   ELSE [a2 EXCEPT !.vad_state.silence_frames = 0]
         IN IF a3.vad_state.silence_frames >= MAX_SILENCE_FRAMES
            THEN finalize_recording(a3)
            ELSE [ap |-> check_buffer_overflow(a3), out |-> None]

\* Decoder::decode: an opus packet of the model carries what it decodes to;
\* ok = FALSE is a packet the decoder rejects
Decode(opus_data) ==
    IF opus_data.ok THEN Some(opus_data.pcm) ELSE None

\* process_audio dropping the recording when the decoder rejects the packet
process_audio_resets(ap, opus_data) ==
    LET decoded == Decode(opus_data)
    IN IF decoded # None
       THEN update_vad_state(ap, decoded[1], calculate_rms(decoded[1]))
       ELSE [ap |-> reset_state(ap), out |-> None]

\* AudioProcessor::process_audio
process_audio(ap, opus_data) ==
    LET decoded == Decode(opus_data)
    IN IF decoded # None
       THEN LET pcm_slice == decoded[1]
                energy == calculate_rms(pcm_slice)
            IN update_vad_state(ap, pcm_slice, energy)
       ELSE [ap |-> ap, out |-> None]

\* ------------------------------------------------------------------------
\* Strings
\* ------------------------------------------------------------------------
\* char::is_whitespace, on the characters of the model
Whitespace == {" ", "\n", "\t"}

RECURSIVE TrimStart(_)
TrimStart(s) == IF s # <<>> /\ s[1] \in Whitespace THEN TrimStart(Tail(s)) ELSE s

RECURSIVE TrimEnd(_)
TrimEnd(s) ==
    IF s # <<>> /\ s[Len(s)] \in Whitespace THEN TrimEnd(SubSeq(s, 1, Len(s) - 1)) ELSE s

\* str::trim
Trim(s) == TrimEnd(TrimStart(s))

UpperAlpha == <<"A","B","C","D","E","F","G","H","I","J","K","L","M",
                "N","O","P","Q","R","S","T","U","V","W","X","Y","Z">>
LowerAlpha == <<"a","b","c","d","e","f","g","h","i","j","k","l","m",
                "n","o","p","q","r","s","t","u","v","w","x","y","z">>

LowerChar(c) ==
    IF \E i \in 1..26 : UpperAlpha[i] = c
    THEN LowerAlpha[CHOOSE i \in 1..26 : UpperAlpha[i] = c]
    ELSE c

\* str::to_lowercase
ToLowercase(s) == [i \in 1..Len(s) |-> LowerChar(s[i])]

\* str::contains
Contains(s, pat) ==
    \E i \in 1..(Len(s) - Len(pat) + 1) : SubSeq(s, i, i + Len(pat) - 1) = pat

\* the string literals of the program
StrLlm == <<"l","l","m">>
StrCalm == <<"c","a","l","m">>
StrNeutral == <<"n","e","u","t","r","a","l">>
StrPong == <<"p","o","n","g">>
StrPing == <<"p","i","n","g">>
StrConnectedReady ==
    <<"C","o","n","n","e","c","t","e","d"," ","&"," ","R","e","a","d","y">>
\* the five-character degenerate transcript of is_valid_speech, one element
\* per character (each written by its pinyin)
StrHallucination == <<"ni", "qu", "zhao", "wo", "ba">>

\* EmotionAnalyzer::new, field valid_emotions
valid_emotions ==
    << <<"j","o","y">>, <<"a","n","g","e","r">>, <<"s","a","d","n","e","s","s">>,
       <<"f","e","a","r">>, StrCalm, StrNeutral, <<"s","l","e","e","p">> >>

\* ------------------------------------------------------------------------
\* Collaborators
\* ------------------------------------------------------------------------
RECURSIVE FirstContained(_, _)
\* the for loop of validate_emotion_response
FirstContained(emotion, emotions) ==
    IF emotions = <<>> THEN StrNeutral
    ELSE IF Contains(emotion, emotions[1]) THEN emotions[1]
    ELSE FirstContained(emotion, Tail(emotions))

\* validate_emotion_response matching the reply as it came
validate_emotion_response_verbatim(response) ==
    FirstContained(response, valid_emotions)

\* EmotionAnalyzer::validate_emotion_response
validate_emotion_response(response) ==
    FirstContained(ToLowercase(Trim(response)), valid_emotions)

\* analyze passing the failure of the request on as its label
analyze_passes_error(reply) ==
    IF reply.ok THEN validate_emotion_response(reply.response)
    ELSE <<"e","r","r","o","r">>

\* EmotionAnalyzer::analyze, given what send_ollama_request returned
analyze(reply) ==
    IF reply.ok THEN validate_emotion_response(reply.response) ELSE StrNeutral

\* what send_ollama_request may return: Err (the request failed or timed out, or the
\* reply was not the expected JSON), or Ok(response)
OllamaReplies ==
    { [ok |-> FALSE, response |-> <<>>],
      [ok |-> TRUE, response |-> <<" ","J","o","y","\n">>],
      [ok |-> TRUE, response |-> <<"s","a","d"," ","a","n","g","e","r">>],
      [ok |-> TRUE, response |-> <<"S","a","d","n","e","s","s",","," ","j","o","y">>],
      [ok |-> TRUE, response |-> <<"o","k">>] }

\* the texts of the segments the inference may produce
RecognizerTexts ==
    { <<>>, <<" ", "\n">>, <<" ","h","i","\n">>,
      StrHallucination, <<" ">> \o StrHallucination \o <<"\n">> }

\* how an inference may go: create_state or state.full fails (ok = FALSE), or the
\* inference produces segments
WhisperOutcomes ==
    { [ok |-> FALSE, segments |-> <<>>] }
    \cup { [ok |-> TRUE, segments |-> t] : t \in RecognizerTexts }

\* SpeechRecognizer::recognize
recognize(outcome) ==
    IF outcome.ok THEN outcome.segments ELSE <<>>

\* ------------------------------------------------------------------------
\* Protocol
\* ------------------------------------------------------------------------
\* initial_connection with the classifier's default label
initial_connection_neutral ==
    [msg_type |-> StrLlm, emotion |-> StrNeutral, text |-> Some(StrConnectedReady)]

\* ServerResponse::initial_connection, serialized
initial_connection ==
    [msg_type |-> StrLlm, emotion |-> StrCalm, text |-> Some(StrConnectedReady)]

\* ServerResponse::speech_result, serialized (the database insert is outside the model)
speech_result(text, emotion) ==
    [msg_type |-> StrLlm, emotion |-> emotion, text |-> Some(text)]

\* the literal pong reply
PongMessage == [msg_type |-> StrPong, emotion |-> <<>>, text |-> None]

\* is_valid_speech without the filter of the degenerate transcript
is_valid_speech_nonempty(text) == text # <<>>

\* is_valid_speech
is_valid_speech(text) == text # <<>> /\ text # StrHallucination

\* process_complete_speech: the messages sent, and whether the classifier was called,
\* given what the recognizer and the classifier service returned
process_complete_speech(text, reply) ==
    LET clean_text == Trim(text)
    IN IF is_valid_speech(clean_text)
       THEN [sends |-> <<speech_result(clean_text, analyze(reply))>>, analyzed |-> TRUE]
       ELSE [sends |-> <<>>, analyzed |-> FALSE]

\* the JSON texts of the two variants of DeviceMessage, around their string fields
JsonHelloOpen ==
    <<"{","\"","t","y","p","e","\"",":","\"","h","e","l","l","o","\"",",",
      "\"","v","e","r","s","i","o","n","\"",":","\"">>
JsonEventOpen ==
    <<"{","\"","t","y","p","e","\"",":","\"","e","v","e","n","t","\"",",",
      "\"","k","e","y","\"",":","\"">>
JsonEventValue == <<"\"",",","\"","v","a","l","u","e","\"",":","\"">>
JsonClose == <<"\"","}">>

\* a JSON string without escapes, between its quotes
JsonPlain(s) == \A i \in 1..Len(s) : s[i] \notin {"\"", "\\"}

\* text is pre, a plain string, post
Wraps(text, pre, post) ==
    /\ Len(text) >= Len(pre) + Len(post)
    /\ SubSeq(text, 1, Len(pre)) = pre
    /\ SubSeq(text, Len(text) - Len(post) + 1, Len(text)) = post
    /\ JsonPlain(SubSeq(text, Len(pre) + 1, Len(text) - Len(post)))

\* serde_json::from_str::<DeviceMessage>, on compact JSON with the fields in the
\* order of the declaration: the variant decoded, or "Err"
DeviceMessage(text) ==
    IF Wraps(text, JsonHelloOpen, JsonClose) THEN "Hello"
    ELSE IF \E i \in 1..Len(text) :
               /\ Wraps(SubSeq(text, 1, i), JsonEventOpen, <<>>)
               /\ Wraps(SubSeq(text, i + 1, Len(text)), JsonEventValue, JsonClose)
    THEN "Event"
    ELSE "Err"

\* the lines the match of handle_text_message and handle_text_frame logs
LogOf(text) ==
    LET m == DeviceMessage(text)
    IN IF m = "Hello" THEN "APP handshake"
       ELSE IF m = "Event" THEN "APP event"
       ELSE "Raw Text"

\* a handler that answers a handshake with a speech result
handle_text_message_replies(text) ==
    IF Contains(text, StrPing)
    THEN [sends |-> <<PongMessage>>, logs |-> <<"received text">>]
    ELSE [sends |-> IF DeviceMessage(text) = "Hello"
                    THEN <<[msg_type |-> StrLlm, emotion |-> StrCalm, text |-> None]>>
                    ELSE <<>>,
          logs |-> <<"received text", LogOf(text)>>]

\* handle_text_message: the messages sent and the lines logged
handle_text_message(text) ==
    IF Contains(text, StrPing)
    THEN [sends |-> <<PongMessage>>, logs |-> <<"received text">>]
    ELSE [sends |-> <<>>, logs |-> <<"received text", LogOf(text)>>]

\* ------------------------------------------------------------------------
\* State
\* ------------------------------------------------------------------------
VARIABLES
    pc,               \* handle_connection: "open" (entered), "failed" (returned, no processor),
                      \* "loop" (at socket.recv), "done" (left the loop); likewise for
                      \* handle_socket of main.rs, and "panicked" (its task panicked)
    audio_processor,  \* the local audio_processor; None while there is none
    locals,           \* the locals of handle_socket of main.rs that make up its voice
                      \* activity detection; None while there are none
    stream,           \* the runs of messages an unending client sends over and over once
                      \* its first runs are sent; <<>> for a client that stops sending
    conns,            \* when several connections are open at once: for each, where its
                      \* handle_connection is, its audio_processor, the runs of messages
                      \* waiting at its socket, the messages sent on it, and what arrived
                      \* on it and was handled so far
    inbound,          \* messages the client has sent and socket.recv has not yet returned:
                      \* at most one run [msg |-> message, n |-> how many times]
    sent,             \* the messages handed to socket.send, in order
    bursts,           \* number of runs of messages the client has sent
    last,             \* the message handled by the last step of the loop and what the step did
    idleBy,           \* how the segmenter last became idle: "new", "emit", "discard", "overflow"
    seg,              \* the frames decoded since the last frame that started a recording
    hist              \* over the connection: whether any frame was decoded, the largest
                      \* energy decoded, the number of utterances process_audio returned
                      \* and (err) Len(sent) when socket.recv first returned an error;
                      \* while recording, (quietRun) the number of the most recent
                      \* consecutive frames below the end threshold

vars == <<pc, audio_processor, locals, stream, conns, inbound, sent, bursts, last, idleBy, seg, hist>>

\* ------------------------------------------------------------------------
\* The client
\* ------------------------------------------------------------------------
\* a decoded frame of n samples, all of value v
Frame(n, v) == <<[v |-> v, n |-> n]>>

Packet(n, v) == [ok |-> TRUE, pcm |-> Frame(n, v)]
BadPacket == [ok |-> FALSE, pcm |-> <<>>]

Binary(data) == [kind |-> "Binary", data |-> data, text |-> <<>>]
Text(text) == [kind |-> "Text", data |-> BadPacket, text |-> text]
Close == [kind |-> "Close", data |-> BadPacket, text |-> <<>>]
\* Some(Err(_)) of socket.recv
RecvErr == [kind |-> "Err", data |-> BadPacket, text |-> <<>>]
\* None of socket.recv: the stream has ended
RecvEnd == [kind |-> "End", data |-> BadPacket, text |-> <<>>]

Burst(msg, n) == [msg |-> msg, n |-> n]

\* the runs of audio packets a client may send
AudioBursts ==
    { Burst(Binary(Packet(320, 1000)), n) : n \in {1, 6, 13, 15} }
    \cup { Burst(Binary(Packet(320, 100)), n) : n \in {1, 12} }
    \cup { Burst(Binary(Packet(320, v)), 1) : v \in {500, 600, 800} }
    \cup { Burst(Binary(Packet(PCM_BUFFER_LEN, 1024)), n) : n \in {1, 72, 83, 84} }
    \cup { Burst(Binary(Packet(PCM_BUFFER_LEN, 64)), n) : n \in {1, 12} }
    \cup { Burst(Binary(BadPacket), 1) }

\* the text payloads a client may send: raw text with and without "ping", a handshake,
\* an event, and an event whose key is "ping"
ClientTexts ==
    { <<"a"," ">> \o StrPing,
      <<"p","i","n">>,
      JsonHelloOpen \o <<"1">> \o JsonClose,
      JsonEventOpen \o <<"k">> \o JsonEventValue \o <<"v">> \o JsonClose,
      JsonEventOpen \o StrPing \o JsonEventValue \o <<"1">> \o JsonClose }

TextBursts == { Burst(Text(t), 1) : t \in ClientTexts }

ClientBursts ==
    AudioBursts \cup TextBursts
    \cup { Burst(Close, 1), Burst(RecvErr, 1), Burst(RecvEnd, 1) }

\* the connections that are open at once
Conns == {"a", "b"}

\* a connection on which handle_connection has just been entered
NewConn ==
    [pc |-> "open", audio_processor |-> None, inbound |-> <<>>, sent |-> <<>>,
     arrived |-> <<>>, handled |-> <<>>, outcomes |-> <<>>]

NoConns == [c \in Conns |-> NewConn]

\* no frame has started a recording yet, or the frames since then are of neither shape
SegOff ==
    [on |-> FALSE, first |-> FALSE, lq |-> FALSE, ns |-> FALSE, samples |-> <<>>, frames |-> 0,
     loud |-> 0, quiet |-> 0, prev |-> 0, total |-> 0, emits |-> 0]

\* seg after a frame of the given energy was decoded and process_audio returned out.
\* Since the frame that last started a recording:
\*   first   that frame was the first frame decoded on the connection,
\*   lq      the frames are frames above the start threshold followed by at most
\*           MAX_SILENCE_FRAMES frames below the end threshold,
\*   ns      no frame was below the end threshold,
\*   samples the samples of the frames, in order (kept while lq),
\*   frames  the number of frames,   loud  the number of samples of the loud frames,
\*   quiet   the number of quiet frames (while lq),
\*   total   the number of samples,  prev  the number of samples before the last frame,
\*   emits   the number of utterances returned.
SegAfter(pre, pcm, energy, out) ==
    LET e == IF out # None THEN 1 ELSE 0
        isLoud == energy > VAD_THRESHOLD_START
        isQuiet == energy < VAD_THRESHOLD_END
        lq == seg.lq /\ (\/ seg.quiet = 0 /\ isLoud
                         \/ seg.quiet < MAX_SILENCE_FRAMES /\ isQuiet)
        ns == seg.ns /\ ~isQuiet
    IN IF ~pre.vad_state.is_recording /\ isLoud
       THEN [on |-> TRUE, first |-> ~hist.any, lq |-> TRUE, ns |-> TRUE, samples |-> pcm,
             frames |-> 1,
             loud |-> BlockLen(pcm), quiet |-> 0, prev |-> 0, total |-> BlockLen(pcm),
             emits |-> e]
       ELSE IF seg.on /\ (lq \/ ns)
       THEN [on |-> TRUE, first |-> seg.first, lq |-> lq, ns |-> ns,
             samples |-> IF lq THEN PushRun(seg.samples, pcm[1].v, pcm[1].n) ELSE <<>>,
             frames |-> seg.frames + 1,
             loud |-> IF lq THEN (IF isLoud THEN seg.loud + BlockLen(pcm) ELSE seg.loud)
                      ELSE 0,
             quiet |-> IF lq /\ isQuiet THEN seg.quiet + 1 ELSE 0,
             prev |-> seg.total,
             total |-> seg.total + BlockLen(pcm),
             emits |-> seg.emits + e]
       ELSE SegOff

\* hist after a frame of the given energy was decoded and process_audio returned out,
\* leaving the processor post
HistAfter(post, energy, out) ==
    [any |-> TRUE,
     maxEnergy |-> IF energy > hist.maxEnergy THEN energy ELSE hist.maxEnergy,
     emitted |-> IF out # None THEN hist.emitted + 1 ELSE hist.emitted,
     err |-> hist.err,
     quietRun |-> IF ~post.vad_state.is_recording THEN 0
                  ELSE IF energy < VAD_THRESHOLD_END THEN hist.quietRun + 1
                  ELSE 0]

\* last before any message was handled.  kind is the kind of the message; pre, preIdleBy,
\* preSeg and preSent are audio_processor, idleBy, seg and Len(sent) before the step;
\* decoded, energy and out are what Decoder::decode, calculate_rms and process_audio
\* returned; text is what the recognizer returned, if it was called; analyzed tells
\* whether the classifier was called; payload is the payload of a text frame and logs
\* the lines logged for it; inferred tells whether the inference of the recognizer
\* succeeded and reply is what the classifier service returned, if it was called;
\* handed is the buffer handle_socket of main.rs passed to run_whisper_inference,
\* when it runs side by side with the audio processor
NoLast ==
    [kind |-> "none", pre |-> None, preIdleBy |-> "new", preSeg |-> SegOff, preSent |-> 0,
     decoded |-> None, energy |-> 0, out |-> None, text |-> None, analyzed |-> FALSE,
     payload |-> <<>>, logs |-> <<>>, inferred |-> FALSE, reply |-> None,
     handed |-> None]

Init ==
    /\ pc = "open"
    /\ audio_processor = None
    /\ locals = None
    /\ stream = <<>>
    /\ conns = NoConns
    /\ inbound = <<>>
    /\ sent = <<>>
    /\ bursts = 0
    /\ last = NoLast
    /\ idleBy = "new"
    /\ seg = SegOff
    /\ hist = [any |-> FALSE, maxEnergy |-> 0, emitted |-> 0, err |-> None,
               quietRun |-> 0]

\* the client sends a run of messages (also to a session that has left its loop)
ClientSend ==
    /\ pc \in {"open", "loop", "done"}
    /\ inbound = <<>>
    /\ bursts < MaxBursts
    /\ \E b \in ClientBursts : inbound' = <<b>>
    /\ bursts' = bursts + 1
    /\ UNCHANGED <<stream, conns, locals, pc, audio_processor, sent, last, idleBy, seg, hist>>

\* ------------------------------------------------------------------------
\* handle_connection
\* ------------------------------------------------------------------------
\* AudioProcessor::new fails: handle_connection returns
ConnectFail ==
    /\ pc = "open"
    /\ pc' = "failed"
    /\ UNCHANGED <<stream, conns, locals, audio_processor, inbound, sent, bursts, last, idleBy, seg, hist>>

\* AudioProcessor::new succeeds; send_initial_response
Connect ==
    /\ pc = "open"
    /\ audio_processor' = NewAudioProcessor
    /\ sent' = Append(sent, initial_connection)
    /\ pc' = "loop"
    /\ UNCHANGED <<stream, conns, locals, inbound, bursts, last, idleBy, seg, hist>>

\* socket.recv returns the next message
NextMsg == inbound[1].msg
Pop == IF inbound[1].n = 1 THEN <<>> ELSE <<[inbound[1] EXCEPT !.n = @ - 1]>>

Receiving(kind) == pc = "loop" /\ inbound # <<>> /\ NextMsg.kind = kind

\* Ok(Message::Text(text)) => handle_text_message
RecvText ==
    /\ Receiving("Text")
    /\ LET r == handle_text_message(NextMsg.text)
       IN /\ sent' = sent \o r.sends
          /\ last' = [NoLast EXCEPT !.kind = "Text", !.pre = audio_processor,
                                    !.preIdleBy = idleBy, !.preSeg = seg,
                                    !.preSent = Len(sent),
                                    !.payload = NextMsg.text, !.logs = r.logs]
    /\ inbound' = Pop
    /\ UNCHANGED <<stream, conns, locals, pc, audio_processor, bursts, idleBy, seg, hist>>

\* how the segmenter last became idle, after a call of process_audio
IdleByAfter(pre, post, out, energy) ==
    IF ~pre.vad_state.is_recording \/ post.vad_state.is_recording THEN idleBy
    ELSE IF out # None THEN "emit"
    ELSE IF pre.vad_state.silence_frames + 1 >= MAX_SILENCE_FRAMES
            /\ energy < VAD_THRESHOLD_END
         THEN "discard"
         ELSE "overflow"

\* Ok(Message::Binary(data)) => handle_audio_message, but for seg
HandleAudio ==
    /\ Receiving("Binary")
    /\ \E r \in {process_audio(audio_processor, NextMsg.data)},
          decoded \in {Decode(NextMsg.data)} :
       LET energy == IF decoded = None THEN 0 ELSE calculate_rms(decoded[1])
           base == [NoLast EXCEPT !.kind = "Binary", !.pre = audio_processor,
                                  !.preIdleBy = idleBy, !.preSeg = seg,
                                  !.preSent = Len(sent), !.decoded = decoded,
                                  !.energy = energy, !.out = r.out]
       IN /\ audio_processor' = r.ap
          /\ IF r.out = None
             THEN /\ sent' = sent
                  /\ last' = base
             ELSE \E outcome \in WhisperOutcomes, reply \in OllamaReplies :
                     LET text == recognize(outcome)
                         p == process_complete_speech(text, reply)
                     IN /\ sent' = sent \o p.sends
                        /\ last' = [base EXCEPT !.text = Some(text),
                                                !.analyzed = p.analyzed,
                                                !.inferred = outcome.ok,
                                                !.reply = IF p.analyzed THEN Some(reply)
                                                          ELSE None]
          /\ idleBy' = IdleByAfter(audio_processor, r.ap, r.out, energy)
          /\ hist' = IF decoded = None THEN hist ELSE HistAfter(r.ap, energy, r.out)
    /\ inbound' = Pop
    /\ UNCHANGED <<stream, conns, locals, pc, bursts>>

\* Ok(Message::Binary(data)) => handle_audio_message
RecvBinary ==
    /\ HandleAudio
    /\ LET decoded == Decode(NextMsg.data)
       IN seg' = IF decoded = None THEN seg
                 ELSE SegAfter(audio_processor, decoded[1], calculate_rms(decoded[1]),
                               process_audio(audio_processor, NextMsg.data).out)

\* Ok(Message::Close(_)) => break
RecvClose ==
    /\ Receiving("Close")
    /\ pc' = "done"
    /\ audio_processor' = None
    /\ last' = [NoLast EXCEPT !.kind = "Close", !.preSent = Len(sent)]
    /\ inbound' = Pop
    /\ UNCHANGED <<stream, conns, locals, sent, bursts, idleBy, seg, hist>>

\* _ => {}
RecvOther ==
    /\ Receiving("Err")
    /\ last' = [NoLast EXCEPT !.kind = "Err", !.pre = audio_processor,
                              !.preIdleBy = idleBy, !.preSeg = seg, !.preSent = Len(sent)]
    /\ hist' = IF hist.err = None THEN [hist EXCEPT !.err = Some(Len(sent))] ELSE hist
    /\ inbound' = Pop
    /\ UNCHANGED <<stream, conns, locals, pc, audio_processor, sent, bursts, idleBy, seg>>

\* socket.recv returns None: the while let loop ends
RecvNone ==
    /\ Receiving("End")
    /\ pc' = "done"
    /\ audio_processor' = None
    /\ last' = [NoLast EXCEPT !.kind = "End", !.preSent = Len(sent)]
    /\ inbound' = Pop
    /\ UNCHANGED <<stream, conns, locals, sent, bursts, idleBy, seg, hist>>

Next ==
    \/ ClientSend
    \/ ConnectFail
    \/ Connect
    \/ RecvText
    \/ RecvBinary
    \/ RecvClose
    \/ RecvOther
    \/ RecvNone

Spec == Init /\ [][Next]_vars

\* ------------------------------------------------------------------------
\* handle_socket of main.rs
\* ------------------------------------------------------------------------
\* the locals of handle_socket when it enters its loop
NewLocals ==
    [audio_buffer |-> <<>>, silence_frames |-> 0, is_recording_speech |-> FALSE,
     max_recorded_energy |-> 0]

\* the voice activity detection of handle_socket on a decoded frame, as far as the
\* locals go: the locals after the state machine, and the buffer passed to
\* run_whisper_inference if it is called
VadStateMachine(l, slice, energy) ==
    IF ~l.is_recording_speech
    THEN [locals |-> IF energy > VAD_THRESHOLD_START
                     THEN [audio_buffer |-> add_samples_to_buffer(l.audio_buffer, slice),
                           silence_frames |-> 0, is_recording_speech |-> TRUE,
                           max_recorded_energy |-> energy]
                     ELSE l,
          out |-> None]
    ELSE LET l1 == [l EXCEPT !.audio_buffer = add_samples_to_buffer(@, slice)]
             l2 == IF energy > l1.max_recorded_energy
                   THEN [l1 EXCEPT !.max_recorded_energy = energy]
                   ELSE l1
             l3 == IF energy < VAD_THRESHOLD_END
                   THEN [l2 EXCEPT !.silence_frames = @ + 1]
                   ELSE [l2 EXCEPT !.silence_frames = 0]
         IN IF l3.silence_frames >= MAX_SILENCE_FRAMES
            THEN [locals |-> NewLocals,
                  out |-> IF BlockLen(l3.audio_buffer) > MIN_UTTERANCE_SAMPLES
                          THEN Some(l3.audio_buffer) ELSE None]
            ELSE [locals |-> l3, out |-> None]

\* a guard that leaves the buffer as it is
BufferGuardFlagOnly(l) ==
    IF BlockLen(l.audio_buffer) > MAX_BUFFER_SIZE
    THEN [l EXCEPT !.is_recording_speech = FALSE]
    ELSE l

\* the guard of handle_socket against a buffer that has grown too large
BufferGuard(l) ==
    IF BlockLen(l.audio_buffer) > MAX_BUFFER_SIZE
    THEN [l EXCEPT !.audio_buffer = <<>>, !.is_recording_speech = FALSE]
    ELSE l

\* run_whisper_inference, once create_state has succeeded
run_whisper_inference(outcome) ==
    IF outcome.ok THEN outcome.segments ELSE <<>>

\* analyze_emotion_with_llm, given what the request returned
analyze_emotion_with_llm(reply) ==
    IF reply.ok
    THEN FirstContained(ToLowercase(Trim(reply.response)), valid_emotions)
    ELSE StrNeutral

\* handle_text_frame: the lines logged
handle_text_frame(text) == <<LogOf(text)>>

\* Decoder::new fails: handle_socket returns
SocketFail ==
    /\ pc = "open"
    /\ pc' = "failed"
    /\ UNCHANGED <<stream, conns, audio_processor, locals, inbound, sent, bursts, last, idleBy, seg, hist>>

\* Decoder::new succeeds; the locals are initialized and the initial state is sent
SocketOpen ==
    /\ pc = "open"
    /\ locals' = NewLocals
    /\ sent' = Append(sent, [msg_type |-> StrLlm, emotion |-> StrCalm,
                             text |-> Some(StrConnectedReady)])
    /\ pc' = "loop"
    /\ UNCHANGED <<stream, conns, audio_processor, inbound, bursts, last, idleBy, seg, hist>>

\* Ok(Message::Text(text)) of handle_socket
SocketText ==
    /\ Receiving("Text")
    /\ sent' = IF Contains(NextMsg.text, StrPing) THEN Append(sent, PongMessage) ELSE sent
    /\ last' = [NoLast EXCEPT !.kind = "Text", !.pre = locals, !.preSent = Len(sent),
                              !.payload = NextMsg.text,
                              !.logs = <<"received text">> \o handle_text_frame(NextMsg.text)]
    /\ inbound' = Pop
    /\ UNCHANGED <<stream, conns, pc, audio_processor, locals, bursts, idleBy, seg, hist>>

\* Ok(Message::Binary(data)) of handle_socket; create_state of the recognizer may fail,
\* and then the task panics
SocketBinary ==
    /\ Receiving("Binary")
    /\ LET decoded == Decode(NextMsg.data)
           energy == IF decoded = None THEN 0 ELSE calculate_rms(decoded[1])
           r == IF decoded = None THEN [locals |-> locals, out |-> None]
                ELSE VadStateMachine(locals, decoded[1], energy)
           base == [NoLast EXCEPT !.kind = "Binary", !.pre = locals,
                                  !.preSent = Len(sent), !.decoded = decoded,
                                  !.energy = energy, !.out = r.out]
       IN IF r.out = None
          THEN /\ locals' = IF decoded = None THEN locals ELSE BufferGuard(r.locals)
               /\ sent' = sent
               /\ last' = base
               /\ pc' = pc
          ELSE \/ /\ pc' = "panicked"
                  /\ locals' = None
                  /\ sent' = sent
                  /\ last' = base
               \/ \E outcome \in WhisperOutcomes, reply \in OllamaReplies :
                     LET text == run_whisper_inference(outcome)
                         clean_text == Trim(text)
                         valid == clean_text # <<>> /\ clean_text # StrHallucination
                     IN /\ sent' = IF valid
                                   THEN Append(sent,
                                               [msg_type |-> StrLlm,
                                                emotion |-> analyze_emotion_with_llm(reply),
                                                text |-> Some(clean_text)])
                                   ELSE sent
                        /\ last' = [base EXCEPT !.text = Some(text), !.analyzed = valid,
                                                !.inferred = outcome.ok,
                                                !.reply = IF valid THEN Some(reply)
                                                          ELSE None]
                        /\ locals' = BufferGuard(r.locals)
                        /\ pc' = pc
    /\ inbound' = Pop
    /\ UNCHANGED <<stream, conns, audio_processor, bursts, idleBy, seg, hist>>

\* Ok(Message::Close(_)) => break, of handle_socket
SocketClose ==
    /\ Receiving("Close")
    /\ pc' = "done"
    /\ locals' = None
    /\ last' = [NoLast EXCEPT !.kind = "Close", !.preSent = Len(sent)]
    /\ inbound' = Pop
    /\ UNCHANGED <<stream, conns, audio_processor, sent, bursts, idleBy, seg, hist>>

\* _ => {} of handle_socket
SocketOther ==
    /\ Receiving("Err")
    /\ last' = [NoLast EXCEPT !.kind = "Err", !.pre = locals, !.preSent = Len(sent)]
    /\ inbound' = Pop
    /\ UNCHANGED <<stream, conns, pc, audio_processor, locals, sent, bursts, idleBy, seg, hist>>

\* socket.recv returns None: the loop of handle_socket ends
SocketNone ==
    /\ Receiving("End")
    /\ pc' = "done"
    /\ locals' = None
    /\ last' = [NoLast EXCEPT !.kind = "End", !.preSent = Len(sent)]
    /\ inbound' = Pop
    /\ UNCHANGED <<stream, conns, audio_processor, sent, bursts, idleBy, seg, hist>>

NextMain ==
    \/ ClientSend
    \/ SocketFail
    \/ SocketOpen
    \/ SocketText
    \/ SocketBinary
    \/ SocketClose
    \/ SocketOther
    \/ SocketNone

SpecMain == Init /\ [][NextMain]_vars

\* ------------------------------------------------------------------------
\* handle_connection with a client that never stops sending audio
\* ------------------------------------------------------------------------
\* the runs an unending client repeats: frames above the start threshold, frames
\* between the thresholds, frames below the end threshold, silence runs one short of
\* MAX_SILENCE_FRAMES each broken by a frame between the thresholds, and frames above
\* the start threshold each preceded by a packet the decoder rejects
ClientStreams ==
    { << Burst(Binary(Packet(PCM_BUFFER_LEN, 1024)), 1) >>,
      << Burst(Binary(Packet(PCM_BUFFER_LEN, 600)), 1) >>,
      << Burst(Binary(Packet(PCM_BUFFER_LEN, 64)), 1) >>,
      << Burst(Binary(Packet(PCM_BUFFER_LEN, 64)), MAX_SILENCE_FRAMES - 1),
         Burst(Binary(Packet(PCM_BUFFER_LEN, 600)), 1) >>,
      << Burst(Binary(BadPacket), 1), Burst(Binary(Packet(PCM_BUFFER_LEN, 1024)), 1) >> }

InitLive ==
    /\ pc = "open"
    /\ audio_processor = None
    /\ locals = None
    /\ stream \in ClientStreams
    /\ conns = NoConns
    /\ inbound = <<>>
    /\ sent = <<>>
    /\ bursts = 0
    /\ last = NoLast
    /\ idleBy = "new"
    /\ seg = SegOff
    /\ hist = [any |-> FALSE, maxEnergy |-> 0, emitted |-> 0, err |-> None,
               quietRun |-> 0]

\* the client sends one of its first runs
ClientFirst ==
    /\ bursts < MaxFirst
    /\ ClientSend

\* the client, its first runs sent, sends the next run of its stream
ClientStream ==
    /\ pc \in {"open", "loop", "done"}
    /\ inbound = <<>>
    /\ bursts = MaxFirst
    /\ inbound' = <<stream[1]>>
    /\ stream' = Tail(stream) \o <<stream[1]>>
    /\ UNCHANGED <<conns, pc, audio_processor, locals, sent, bursts, last, idleBy, seg, hist>>

\* Ok(Message::Binary(data)) => handle_audio_message, the frames since the trigger
\* not being kept
RecvAudio ==
    /\ HandleAudio
    /\ UNCHANGED seg

\* one iteration of the loop of handle_connection
LoopStep == RecvText \/ RecvAudio \/ RecvClose \/ RecvOther \/ RecvNone

NextLive ==
    \/ ClientFirst
    \/ ClientStream
    \/ ConnectFail
    \/ Connect
    \/ RecvText
    \/ RecvAudio
    \/ RecvClose
    \/ RecvOther
    \/ RecvNone

\* the client keeps sending, and the task of the connection is scheduled whenever a
\* message is waiting at socket.recv
SpecLive ==
    InitLive /\ [][NextLive]_vars
    /\ WF_vars(ClientFirst \/ ClientStream)
    /\ WF_vars(LoopStep)

\* ------------------------------------------------------------------------
\* handle_connection on several connections at once
\* ------------------------------------------------------------------------
\* the runs the client of a connection may send when several connections are open
ConnBursts ==
    { Burst(Binary(Packet(PCM_BUFFER_LEN, 1024)), 1),
      Burst(Binary(Packet(PCM_BUFFER_LEN, 64)), MAX_SILENCE_FRAMES),
      Burst(Text(<<"a"," ">> \o StrPing), 1),
      Burst(Close, 1), Burst(RecvErr, 1), Burst(RecvEnd, 1) }

\* how the inference and the classifier request may go then
ConnOutcomes ==
    { [outcome |-> [ok |-> FALSE, segments |-> <<>>],
       reply |-> [ok |-> FALSE, response |-> <<>>]] }
    \cup { [outcome |-> [ok |-> TRUE, segments |-> <<" ","h","i","\n">>], reply |-> r] :
             r \in { [ok |-> FALSE, response |-> <<>>],
                     [ok |-> TRUE, response |-> <<" ","J","o","y","\n">>] } }

\* runs with n more copies of msg at their end
PushMsg(runs, msg, n) ==
    IF runs # <<>> /\ runs[Len(runs)].msg = msg
    THEN [runs EXCEPT ![Len(runs)].n = @ + n]
    ELSE Append(runs, Burst(msg, n))

\* runs without one message of run i
Taken(runs, i) ==
    IF runs[i].n = 1
    THEN SubSeq(runs, 1, i - 1) \o SubSeq(runs, i + 1, Len(runs))
    ELSE [runs EXCEPT ![i].n = @ - 1]

\* socket.recv returning the message that arrived last
Newest(runs) == Len(runs)

\* the run socket.recv returns its next message from: the messages of a socket are
\* received in the order they arrived
Oldest(runs) == 1

\* handle_connection using one audio processor for all connections
OwnerShared(c) == "a"

\* the connection whose audio_processor the task of connection c uses: its own, a
\* local of handle_connection
Owner(c) == c

\* the client of connection c sends a run of messages
PeerSend(c) ==
    /\ conns[c].pc \in {"open", "loop"}
    /\ bursts < MaxBursts
    /\ Len(conns[c].inbound) < MaxQueued
    /\ \E b \in ConnBursts :
          conns' = [conns EXCEPT ![c].inbound = PushMsg(@, b.msg, b.n),
                                 ![c].arrived = PushMsg(@, b.msg, b.n)]
    /\ bursts' = bursts + 1
    /\ UNCHANGED <<pc, audio_processor, locals, stream, inbound, sent, last, idleBy, seg,
                   hist>>

\* AudioProcessor::new fails on connection c
AcceptFail(c) ==
    /\ conns[c].pc = "open"
    /\ conns' = [conns EXCEPT ![c].pc = "failed"]
    /\ UNCHANGED <<pc, audio_processor, locals, stream, inbound, sent, bursts, last, idleBy,
                   seg, hist>>

\* AudioProcessor::new succeeds on connection c; send_initial_response
Accept(c) ==
    /\ conns[c].pc = "open"
    /\ conns' = [conns EXCEPT ![c].pc = "loop",
                              ![c].audio_processor = NewAudioProcessor,
                              ![c].sent = Append(@, initial_connection)]
    /\ UNCHANGED <<pc, audio_processor, locals, stream, inbound, sent, bursts, last, idleBy,
                   seg, hist>>

\* the message socket.recv of connection c returns next
ConnMsg(c) == conns[c].inbound[Oldest(conns[c].inbound)].msg

\* conns once connection c has taken its next message
Took(c) ==
    [conns EXCEPT ![c].inbound = Taken(@, Oldest(@)),
                  ![c].handled = PushMsg(@, ConnMsg(c), 1)]

ConnReceiving(c, kind) ==
    /\ conns[c].pc = "loop"
    /\ conns[c].inbound # <<>>
    /\ ConnMsg(c).kind = kind
    /\ conns[Owner(c)].audio_processor # None

\* Ok(Message::Text(text)) on connection c
ConnText(c) ==
    /\ ConnReceiving(c, "Text")
    /\ conns' = [Took(c) EXCEPT ![c].sent = @ \o handle_text_message(ConnMsg(c).text).sends]
    /\ UNCHANGED <<pc, audio_processor, locals, stream, inbound, sent, bursts, last, idleBy,
                   seg, hist>>

\* Ok(Message::Binary(data)) on connection c
ConnBinary(c) ==
    /\ ConnReceiving(c, "Binary")
    /\ \E r \in {process_audio(conns[Owner(c)].audio_processor, ConnMsg(c).data)} :
          IF r.out = None
          THEN conns' = [Took(c) EXCEPT ![Owner(c)].audio_processor = r.ap]
          ELSE \E o \in ConnOutcomes :
                  conns' = [Took(c) EXCEPT
                               ![Owner(c)].audio_processor = r.ap,
                               ![c].sent = @ \o process_complete_speech(
                                                    recognize(o.outcome), o.reply).sends,
                               ![c].outcomes = Append(@, o)]
    /\ UNCHANGED <<pc, audio_processor, locals, stream, inbound, sent, bursts, last, idleBy,
                   seg, hist>>

\* Ok(Message::Close(_)) => break, on connection c
ConnClose(c) ==
    /\ ConnReceiving(c, "Close")
    /\ conns' = [Took(c) EXCEPT ![c].pc = "done", ![c].audio_processor = None]
    /\ UNCHANGED <<pc, audio_processor, locals, stream, inbound, sent, bursts, last, idleBy,
                   seg, hist>>

\* _ => {} on connection c
ConnOther(c) ==
    /\ ConnReceiving(c, "Err")
    /\ conns' = Took(c)
    /\ UNCHANGED <<pc, audio_processor, locals, stream, inbound, sent, bursts, last, idleBy,
                   seg, hist>>

\* socket.recv returns None on connection c
ConnNone(c) ==
    /\ ConnReceiving(c, "End")
    /\ conns' = [Took(c) EXCEPT ![c].pc = "done", ![c].audio_processor = None]
    /\ UNCHANGED <<pc, audio_processor, locals, stream, inbound, sent, bursts, last, idleBy,
                   seg, hist>>

NextTwo ==
    \/ \E c \in Conns : PeerSend(c)
    \/ \E c \in Conns : AcceptFail(c)
    \/ \E c \in Conns : Accept(c)
    \/ \E c \in Conns : ConnText(c)
    \/ \E c \in Conns : ConnBinary(c)
    \/ \E c \in Conns : ConnClose(c)
    \/ \E c \in Conns : ConnOther(c)
    \/ \E c \in Conns : ConnNone(c)

SpecTwo == Init /\ [][NextTwo]_vars

\* ------------------------------------------------------------------------
\* The state machine of handle_socket and update_vad_state, side by side
\* ------------------------------------------------------------------------
\* the client sends a run of audio packets
FrameSend ==
    /\ pc \in {"open", "loop"}
    /\ inbound = <<>>
    /\ bursts < MaxBursts
    /\ \E b \in AudioBursts : inbound' = <<b>>
    /\ bursts' = bursts + 1
    /\ UNCHANGED <<pc, audio_processor, locals, stream, conns, sent, last, idleBy, seg, hist>>

\* AudioProcessor::new, and the locals of handle_socket as it enters its loop
BothNew ==
    /\ pc = "open"
    /\ audio_processor' = NewAudioProcessor
    /\ locals' = NewLocals
    /\ pc' = "loop"
    /\ UNCHANGED <<stream, conns, inbound, sent, bursts, last, idleBy, seg, hist>>

\* the same packet is given to process_audio and to the Message::Binary arm of
\* handle_socket, as far as its locals go
BothFrame ==
    /\ Receiving("Binary")
    /\ \E decoded \in {Decode(NextMsg.data)},
          r \in {process_audio(audio_processor, NextMsg.data)} :
       LET energy == IF decoded = None THEN 0 ELSE calculate_rms(decoded[1])
           m == IF decoded = None THEN [locals |-> locals, out |-> None]
                ELSE VadStateMachine(locals, decoded[1], energy)
       IN /\ audio_processor' = r.ap
          /\ locals' = IF decoded = None THEN locals ELSE BufferGuard(m.locals)
          /\ last' = [NoLast EXCEPT !.kind = "Binary", !.pre = audio_processor,
                                    !.decoded = decoded, !.energy = energy,
                                    !.out = r.out, !.handed = m.out]
    /\ inbound' = Pop
    /\ UNCHANGED <<pc, stream, conns, sent, bursts, idleBy, seg, hist>>

NextBoth ==
    \/ FrameSend
    \/ BothNew
    \/ BothFrame

SpecBoth == Init /\ [][NextBoth]_vars

\* ------------------------------------------------------------------------
\* handle_connection on an audio stream, with and without text frames inserted
\* ------------------------------------------------------------------------
\* the runs of frames of the audio stream: a frame above the start threshold, and
\* frames below the end threshold
StreamFrames ==
    { Burst(Binary(Packet(PCM_BUFFER_LEN, 1024)), 1),
      Burst(Binary(Packet(PCM_BUFFER_LEN, 64)), 1),
      Burst(Binary(Packet(PCM_BUFFER_LEN, 64)), MAX_SILENCE_FRAMES - 1) }

RECURSIVE TextsIn(_)
\* the number of text frames among the messages of runs
TextsIn(runs) ==
    IF runs = <<>> THEN 0
    ELSE (IF runs[1].msg.kind = "Text" THEN runs[1].n ELSE 0) + TextsIn(Tail(runs))

RECURSIVE FramesIn(_)
\* the number of binary frames among the messages of runs
FramesIn(runs) ==
    IF runs = <<>> THEN 0
    ELSE (IF runs[1].msg.kind = "Binary" THEN runs[1].n ELSE 0) + FramesIn(Tail(runs))

\* the two connections are followed frame by frame: connection "a" takes its next
\* frame once connection "b" has taken the one before
Turn(c) ==
    IF c = "a"
    THEN FramesIn(conns["a"].handled) = FramesIn(conns["b"].handled)
    ELSE FramesIn(conns["b"].handled) < FramesIn(conns["a"].handled)

\* the next run of the audio stream arrives on both connections, once the runs before
\* it are handled
StreamFrame ==
    /\ \A c \in Conns : conns[c].pc \in {"open", "loop"}
    /\ bursts < MaxBursts
    /\ \A c \in Conns : conns[c].inbound = <<>>
    /\ \E b \in StreamFrames :
          conns' = [c \in Conns |->
                       [conns[c] EXCEPT !.inbound = PushMsg(@, b.msg, b.n),
                                        !.arrived = PushMsg(@, b.msg, b.n)]]
    /\ bursts' = bursts + 1
    /\ UNCHANGED <<pc, audio_processor, locals, stream, inbound, sent, last, idleBy, seg,
                   hist>>

\* a text frame arrives on connection "a" only, at this point of the audio stream
StreamText ==
    /\ conns["a"].pc \in {"open", "loop"}
    /\ TextsIn(conns["a"].arrived) < MaxTexts
    /\ \A c \in Conns : conns[c].inbound = <<>>
    /\ \E t \in ClientTexts :
          conns' = [conns EXCEPT !["a"].inbound = PushMsg(@, Text(t), 1),
                                 !["a"].arrived = PushMsg(@, Text(t), 1)]
    /\ UNCHANGED <<pc, audio_processor, locals, stream, inbound, sent, bursts, last, idleBy,
                   seg, hist>>

\* Ok(Message::Binary(data)) on connection c, when it is the turn of c
StreamBinary(c) ==
    /\ Turn(c)
    /\ ConnBinary(c)

NextInsert ==
    \/ StreamFrame
    \/ StreamText
    \/ \E c \in Conns : Accept(c)
    \/ \E c \in Conns : ConnText(c)
    \/ \E c \in Conns : StreamBinary(c)

SpecInsert == Init /\ [][NextInsert]_vars

\* ------------------------------------------------------------------------
\* Properties
\* ------------------------------------------------------------------------
\* the last step of the loop decoded an audio frame and passed it to update_vad_state
LastIngest == pc = "loop" /\ last.kind = "Binary" /\ last.decoded # None

LastWasIdle == ~last.pre.vad_state.is_recording
LastWasRecording == last.pre.vad_state.is_recording

\* the length of the buffer once the last frame is appended to it
LastLen == BlockLen(last.pre.audio_buffer) + BlockLen(last.decoded[1])

\* the last frame was taken in Recording and brought the silence run to MAX_SILENCE_FRAMES
LastFinalizing ==
    /\ LastIngest
    /\ LastWasRecording
    /\ last.pre.vad_state.silence_frames = MAX_SILENCE_FRAMES - 1
    /\ last.energy < VAD_THRESHOLD_END

IsIdle == ~audio_processor.vad_state.is_recording

\* the samples of a block, each divided by 32768
Normalized(samples) ==
    [i \in 1..Len(samples) |-> [v |-> <<samples[i].v, 32768>>, n |-> samples[i].n]]

\* C1: on the call that brings the silence run to MAX_SILENCE_FRAMES an utterance is
\* returned if and only if the buffer, with that frame appended, is longer than 8000
\* samples; either way the segmenter is idle after the call.
C1_Finalization ==
    LastFinalizing =>
        /\ (last.out # None) <=> (LastLen > 8000)
        /\ IsIdle

\* a finalizing call with exactly 8000 samples buffered, which returns nothing
C1_Witness == LastFinalizing /\ LastLen = 8000 /\ last.out = None

\* the frames since the trigger are loud frames of more than 8000 samples in all followed by
\* MAX_SILENCE_FRAMES quiet frames, the last of which was just ingested
RunCompleted ==
    /\ LastIngest
    /\ seg.on /\ seg.lq
    /\ seg.quiet = MAX_SILENCE_FRAMES
    /\ seg.loud > 8000

EmittedTheRun ==
    /\ last.out = Some(Normalized(seg.samples))
    /\ seg.emits = 1
    /\ IsIdle
    /\ audio_processor.audio_buffer = <<>>

\* C2 as stated: whenever a run of loud frames of more than 8000 samples is followed by
\* MAX_SILENCE_FRAMES quiet frames, exactly one utterance is emitted, on the last quiet
\* frame, equal to the normalized samples of all these frames in order, and the segmenter
\* is idle with an empty buffer.
C2_AsStated == RunCompleted => EmittedTheRun

\* C2, amended: the same, provided the samples of the frames before the last quiet frame
\* are at most MAX_BUFFER_SIZE in all.
C2_CompletionEmission == RunCompleted /\ seg.prev <= MAX_BUFFER_SIZE => EmittedTheRun

\* a completed run within the buffer limit, of more than one loud frame
C2_Witness ==
    RunCompleted /\ seg.prev <= MAX_BUFFER_SIZE /\ seg.frames > MAX_SILENCE_FRAMES + 1
    /\ last.out # None

\* C3: as long as no decoded frame has had an energy above START_THRESHOLD, the segmenter
\* is idle with an empty buffer and has emitted nothing.
C3_NoPreRoll ==
    pc = "loop" /\ hist.maxEnergy <= 800 =>
        /\ IsIdle
        /\ audio_processor.audio_buffer = <<>>
        /\ hist.emitted = 0

\* a frame of energy exactly START_THRESHOLD was ingested, and none louder
C3_Witness == LastIngest /\ last.energy = 800 /\ hist.maxEnergy = 800

StartedWithLastFrame ==
    /\ audio_processor.vad_state.is_recording
    /\ audio_processor.vad_state.silence_frames = 0
    /\ audio_processor.vad_state.max_energy = last.energy
    /\ audio_processor.audio_buffer = Normalized(last.decoded[1])
    /\ last.out = None

\* C4 as stated: an idle segmenter that ingests a frame of energy >= START_THRESHOLD
\* becomes Recording with silence run 0, peak energy the frame's energy and a buffer of
\* exactly the frame's normalized samples, and emits nothing.
C4_AsStated == LastIngest /\ LastWasIdle /\ last.energy >= 800 => StartedWithLastFrame

\* C4, amended: the same for a frame of energy strictly greater than START_THRESHOLD.
C4_StartTrigger == LastIngest /\ LastWasIdle /\ last.energy > 800 => StartedWithLastFrame

\* an idle segmenter ingested a frame louder than START_THRESHOLD
C4_Witness == LastIngest /\ LastWasIdle /\ last.energy > 800

\* block a followed by block b
Joined(a, b) ==
    IF a # <<>> /\ b # <<>> /\ a[Len(a)].v = b[1].v
    THEN SubSeq(a, 1, Len(a) - 1) \o <<[v |-> b[1].v, n |-> a[Len(a)].n + b[1].n]>> \o Tail(b)
    ELSE a \o b

FreshState ==
    [audio_buffer |-> <<>>,
     vad_state |-> [silence_frames |-> 0, is_recording |-> FALSE, max_energy |-> 0]]

\* the last frame was appended in Recording and made the buffer longer than MAX_BUFFER_SIZE
LastOverflowing == LastIngest /\ LastWasRecording /\ LastLen > 16000 * 30

\* C5 as stated: every call in Recording after which the buffer is longer than
\* MAX_BUFFER_SIZE emits nothing and leaves the segmenter idle with an empty buffer and
\* zero counters, also when the same frame brings the silence run to MAX_SILENCE_FRAMES.
C5_AsStated == LastOverflowing => last.out = None /\ audio_processor = FreshState

\* C5, amended: every such call leaves the segmenter idle with an empty buffer and zero
\* counters; it emits nothing unless the same frame brings the silence run to
\* MAX_SILENCE_FRAMES, and then it returns the whole buffer as an utterance.
C5_OverflowGuard ==
    LastOverflowing =>
        /\ audio_processor = FreshState
        /\ IF LastFinalizing
           THEN last.out = Some(Joined(last.pre.audio_buffer, Normalized(last.decoded[1])))
           ELSE last.out = None

\* the buffer overflowed on a quiet frame that did not complete the silence run
C5_Witness ==
    LastOverflowing /\ last.energy < 500 /\ ~LastFinalizing
    /\ last.pre.vad_state.silence_frames > 0

\* C6: when, after a trigger, only frames of energy >= END_THRESHOLD are ingested, the
\* call after which their samples exceed MAX_BUFFER_SIZE leaves the segmenter idle with
\* an empty buffer, nothing having been emitted since the trigger; and a frame above
\* START_THRESHOLD ingested in the idle state an overflow left starts a recording whose
\* buffer holds that frame's normalized samples only.
C6_OverflowRecovery ==
    /\ LastIngest /\ seg.on /\ seg.ns /\ seg.prev <= 16000 * 30 /\ seg.total > 16000 * 30
         => /\ IsIdle
            /\ audio_processor.audio_buffer = <<>>
            /\ seg.emits = 0
    /\ LastIngest /\ LastWasIdle /\ last.preIdleBy = "overflow" /\ last.energy > 800
         => /\ audio_processor.vad_state.is_recording
            /\ audio_processor.audio_buffer = Normalized(last.decoded[1])

\* after a trigger and frames without silence overflowed the buffer, the next frame was
\* loud and started a recording
C6_Witness ==
    /\ LastIngest /\ LastWasIdle /\ last.energy > 800
    /\ last.preIdleBy = "overflow"
    /\ last.preSeg.on /\ last.preSeg.ns /\ last.preSeg.total > 16000 * 30
    /\ last.preSeg.emits = 0
    /\ audio_processor.vad_state.is_recording

\* C7: whenever the segmenter is idle, its buffer is empty and its silence run and peak
\* energy are 0: the state is that of a fresh segmenter, whichever way it became idle.
C7_IdleInvariant == pc = "loop" /\ IsIdle => audio_processor = FreshState

\* the segmenter is idle again after a recording that had counted silence and a peak
C7_Witness ==
    /\ LastIngest /\ LastWasRecording /\ IsIdle
    /\ idleBy = "overflow"
    /\ last.pre.vad_state.silence_frames > 0
    /\ last.pre.vad_state.max_energy > 0

\* the audio frames decoded on the connection are 15 frames of 320 samples of energy 1000
\* followed by q frames of 320 samples of energy 100, the last of them just ingested
Scenario(q) ==
    /\ LastIngest
    /\ seg.on /\ seg.first /\ seg.lq
    /\ seg.frames = 15 + q
    /\ seg.samples = (IF q = 0 THEN <<[v |-> 1000, n |-> 15 * 320]>>
                      ELSE <<[v |-> 1000, n |-> 15 * 320], [v |-> 100, n |-> q * 320]>>)

\* the speech results among the first k messages sent
SpeechResults(k) == { i \in 2..k : sent[i].msg_type = StrLlm }

\* C8 as stated: in that scenario nothing is emitted through the 27th frame and no
\* speech result is sent.
C8_AsStated ==
    \A q \in 0..12 : Scenario(q) => hist.emitted = 0 /\ SpeechResults(Len(sent)) = {}

\* C8, amended: nothing is emitted and no speech result is sent through the 26th frame;
\* the 27th frame finalizes a buffer of 27 * 320 = 8640 samples, above the floor of 8000,
\* which is emitted as the utterance, and at most one speech result follows.
C8_Scenario ==
    /\ \A q \in 0..11 :
         Scenario(q) => /\ hist.emitted = 0 /\ last.out = None
                        /\ SpeechResults(Len(sent)) = {}
                        /\ audio_processor.vad_state.is_recording
                        /\ audio_processor.vad_state.silence_frames = q
    /\ Scenario(12) =>
         /\ last.out = Some(<<[v |-> <<1000, 32768>>, n |-> 4800],
                              [v |-> <<100, 32768>>, n |-> 3840]>>)
         /\ hist.emitted = 1
         /\ IsIdle
         /\ SpeechResults(last.preSent) = {}
         /\ Len(sent) <= last.preSent + 1

\* the 27th frame of the scenario has been handled
C8_Witness == Scenario(12)

\* the messages sent while the last message was handled
LastSends == SubSeq(sent, last.preSent + 1, Len(sent))

EmotionLabels == { valid_emotions[i] : i \in 1..Len(valid_emotions) }

\* C9: handling an audio frame sends at most one message; it sends one, a speech result
\* with the trimmed text and a label of the enumeration, exactly when the segmenter
\* emitted an utterance and the trimmed recognized text is neither empty nor the
\* degenerate transcript; otherwise nothing is sent and the classifier is not called.
C9_AudioResponses ==
    pc = "loop" /\ last.kind = "Binary" =>
        LET accepted == /\ last.out # None
                        /\ Trim(last.text[1]) # <<>>
                        /\ Trim(last.text[1]) # StrHallucination
        IN /\ Len(LastSends) <= 1
           /\ (LastSends # <<>>) <=> accepted
           /\ accepted =>
                /\ LastSends[1].msg_type = StrLlm
                /\ LastSends[1].text = Some(Trim(last.text[1]))
                /\ LastSends[1].emotion \in EmotionLabels
           /\ ~accepted => ~last.analyzed
           /\ last.out = None => last.text = None

\* an utterance was emitted, the recognizer returned the degenerate transcript between
\* white space, and nothing was sent
C9_Witness ==
    /\ pc = "loop" /\ last.kind = "Binary" /\ last.out # None
    /\ last.text = Some(<<" ">> \o StrHallucination \o <<"\n">>)
    /\ LastSends = <<>>

InitialResponse ==
    [msg_type |-> StrLlm, emotion |-> StrCalm, text |-> Some(StrConnectedReady)]

\* C10: once the audio processor is initialized the first message sent is the initial
\* response, it is sent once, and no inbound message is handled before it is sent; a
\* connection whose processor fails to initialize sends nothing.
C10_InitialResponse ==
    /\ pc \in {"loop", "done"} =>
         /\ Len(sent) >= 1
         /\ sent[1] = InitialResponse
         /\ \A i \in 2..Len(sent) : sent[i] # InitialResponse
    /\ pc \in {"open", "failed"} => sent = <<>> /\ last.kind = "none"

\* after the initial response, the only run of messages the client sent has been handled
\* and answered
C10_Witness ==
    /\ pc = "loop" /\ last.kind # "none" /\ Len(sent) >= 2
    /\ bursts = 1

\* the last step of the loop handled a text frame
LastText == last.kind = "Text"

\* the lines of the structured decoding step
DecodingLogs == {"APP handshake", "APP event", "Raw Text"}

\* C11 (as stated): for every text frame, a literal pong is sent exactly once when the
\* payload contains "ping" and not at all otherwise, nothing else is sent, and the
\* payload is decoded and logged as a handshake, an event or raw text in either case
C11_AsStated ==
    LastText =>
        /\ LastSends = IF Contains(last.payload, StrPing) THEN <<PongMessage>> ELSE <<>>
        /\ \E i \in 1..Len(last.logs) : last.logs[i] \in DecodingLogs

\* the last step of the loop handled a binary frame the decoder rejected
LastRejected == last.kind = "Binary" /\ last.decoded = None

\* C12: when the decoder rejects a frame, process_audio returns no utterance, the
\* segmenter is as it was before the frame, nothing is sent and the loop goes on
\* from the state it had before the frame.
C12_DecodeFailure ==
    LastRejected =>
        /\ last.out = None
        /\ audio_processor = last.pre
        /\ Len(sent) = last.preSent
        /\ pc = "loop"
        /\ idleBy = last.preIdleBy /\ seg = last.preSeg

\* a frame is rejected while a recording with a silence run is in progress
C12_Witness ==
    /\ LastRejected
    /\ last.pre.vad_state.is_recording
    /\ last.pre.vad_state.silence_frames > 0
    /\ last.pre.audio_buffer # <<>>

\* the loop was left and nothing was received or sent since
LeftForGood == last.kind \in {"Close", "End"} /\ Len(sent) = last.preSent

\* C13 (as stated): once the loop has received a Close frame or a receive error, no
\* inbound message is handled and no outbound message is sent.
C13_AsStated ==
    /\ pc = "done" => LeftForGood
    /\ hist.err # None => last.kind = "Err" /\ Len(sent) = hist.err[1]

\* the positions of the labels of the enumeration that occur in s
LabelsIn(s) == { i \in 1..Len(valid_emotions) : Contains(s, valid_emotions[i]) }

\* the label of the enumeration at the least position of a non-empty set of positions
FirstLabel(hits) == valid_emotions[CHOOSE i \in hits : \A j \in hits : i <= j]

\* C14: the classifier always yields a label of the enumeration; neutral when the
\* request failed, timed out or was not parseable; otherwise the first label, in the
\* order of the enumeration, that occurs in the trimmed, lower-cased reply, and neutral
\* when none occurs.
C14_ClassifierLabel ==
    last.analyzed =>
        LET label == sent[Len(sent)].emotion
            reply == last.reply[1]
            hits == LabelsIn(ToLowercase(Trim(reply.response)))
        IN /\ label \in EmotionLabels
           /\ ~reply.ok => label = StrNeutral
           /\ reply.ok /\ hits = {} => label = StrNeutral
           /\ reply.ok /\ hits # {} => label = FirstLabel(hits)

\* the classifier was called and its reply names two labels, the later of the
\* enumeration first, in upper case
C14_Witness ==
    /\ last.analyzed
    /\ last.reply[1].ok
    /\ Cardinality(LabelsIn(ToLowercase(Trim(last.reply[1].response)))) = 2
    /\ ~Contains(last.reply[1].response, <<"s","a","d","n","e","s","s">>)
    /\ sent[Len(sent)].emotion = <<"j","o","y">>

\* the last step of the loop handed an utterance to the recognizer
LastRecognized == last.kind = "Binary" /\ last.out # None

\* C15: when the inference of the recognizer fails the text is empty and nothing is
\* sent; when the text is valid and the classifier request fails, exactly one speech
\* result with the label neutral and the recognized text is sent; and every message
\* ever sent is the literal pong or a message of type llm whose label is of the
\* enumeration.
C15_FailuresNotSurfaced ==
    /\ LastRecognized /\ ~last.inferred => last.text = Some(<<>>) /\ LastSends = <<>>
    /\ last.analyzed /\ ~last.reply[1].ok =>
           LastSends = <<[msg_type |-> StrLlm, emotion |-> StrNeutral,
                          text |-> Some(Trim(last.text[1]))]>>
    /\ \A i \in 1..Len(sent) :
           \/ sent[i] = PongMessage
           \/ sent[i].msg_type = StrLlm /\ sent[i].emotion \in EmotionLabels

\* the recognizer returned a valid text, the classifier request failed and a speech
\* result was sent
C15_Witness ==
    /\ last.analyzed
    /\ last.inferred
    /\ ~last.reply[1].ok
    /\ Len(LastSends) = 1
    /\ LastSends[1].text # Some(last.text[1])

\* the segmenter was recording before the last frame and still is
LastKeptRecording == LastIngest /\ LastWasRecording /\ ~IsIdle

\* C19: a frame taken while recording has its samples appended whatever its energy,
\* the peak energy becomes the larger of the old peak and the energy of the frame,
\* and the silence run grows by one when the energy is below VAD_THRESHOLD_END and
\* is reset to zero otherwise; so while recording the silence run is the number of
\* the most recent consecutive frames below VAD_THRESHOLD_END since the trigger.
C19_RecordingStep ==
    /\ LastKeptRecording =>
           /\ audio_processor.audio_buffer =
                  Joined(last.pre.audio_buffer, Normalized(last.decoded[1]))
           /\ audio_processor.vad_state.max_energy =
                  IF last.energy > last.pre.vad_state.max_energy
                  THEN last.energy ELSE last.pre.vad_state.max_energy
           /\ audio_processor.vad_state.silence_frames =
                  IF last.energy < 500 THEN last.pre.vad_state.silence_frames + 1 ELSE 0
    /\ pc = "loop" /\ ~IsIdle =>
           audio_processor.vad_state.silence_frames = hist.quietRun

\* a frame of energy 500 ends a silence run of a recording
C19_Witness ==
    /\ LastKeptRecording
    /\ last.energy = 500
    /\ last.pre.vad_state.silence_frames > 0
    /\ hist.quietRun = 0

\* handle_socket is in its loop and not recording
SocketIdle == pc = "loop" /\ locals # None /\ ~locals.is_recording_speech

\* C20 (as stated): the state machine of handle_socket resets the silence run and the
\* peak energy whenever it becomes idle, also through the guard against a buffer over
\* 16000 * 30 samples: in every idle state of handle_socket silence_frames = 0 and
\* max_recorded_energy = 0.
C20_AsStated ==
    SocketIdle => locals.silence_frames = 0 /\ locals.max_recorded_energy = 0

\* the segmenter of the connection is recording
Recording == pc = "loop" /\ audio_processor.vad_state.is_recording

\* C18: with a client that keeps sending audio and a loop that keeps handling it, a
\* segmenter that is recording is eventually no longer recording: it has returned to
\* idle by finalization or by the overflow guard (or the session has left its loop),
\* whatever the energies of the frames.
C18_NoIndefiniteRecording == Recording ~> ~Recording

\* a recording that the silence run cannot end (it is broken at MAX_SILENCE_FRAMES - 1
\* each time) holds all but one frame of the buffer limit
C18_Witness ==
    /\ Recording
    /\ Len(stream) = 2
    /\ audio_processor.vad_state.silence_frames = MAX_SILENCE_FRAMES - 1
    /\ BlockLen(audio_processor.audio_buffer) + PCM_BUFFER_LEN > MAX_BUFFER_SIZE

\* a connection running alone: handle_connection at its loop, no message handled yet;
\* k is the number of utterances handed to the recognizer
SoloStart ==
    [pc |-> "loop", audio_processor |-> NewAudioProcessor,
     sent |-> <<initial_connection>>, k |-> 0]

\* a connection running alone, after one more message, the inferences and classifier
\* requests going as in outcomes
SoloStep(st, msg, outcomes) ==
    IF st.pc # "loop" THEN st
    ELSE IF msg.kind = "Text"
    THEN [st EXCEPT !.sent = @ \o handle_text_message(msg.text).sends]
    ELSE IF msg.kind = "Binary"
    THEN LET r == process_audio(st.audio_processor, msg.data)
         IN IF r.out = None
            THEN [st EXCEPT !.audio_processor = r.ap]
            ELSE [st EXCEPT !.audio_processor = r.ap,
                            !.sent = @ \o process_complete_speech(
                                              recognize(outcomes[st.k + 1].outcome),
                                              outcomes[st.k + 1].reply).sends,
                            !.k = @ + 1]
    ELSE IF msg.kind \in {"Close", "End"}
    THEN [st EXCEPT !.pc = "done", !.audio_processor = None]
    ELSE st

RECURSIVE Solo(_, _, _)
\* a connection running alone, after the messages of runs
Solo(st, runs, outcomes) ==
    IF runs = <<>> THEN st
    ELSE Solo(CHOOSE t \in {SoloStep(st, runs[1].msg, outcomes)} : TRUE,
              Taken(runs, 1), outcomes)

\* connection c has entered its loop
Accepted(c) == conns[c].pc \in {"loop", "done"}

\* C16: with two connections whose messages are handled in any interleaving, the
\* segmenter of each connection and the messages sent on it are, after each of its
\* messages, what they are for a connection that handles the same messages alone.
C16_SessionIsolation ==
    \A c \in Conns :
        Accepted(c) =>
            LET solo == Solo(SoloStart, conns[c].handled, conns[c].outcomes)
            IN /\ conns[c].pc = solo.pc
               /\ conns[c].audio_processor = solo.audio_processor
               /\ conns[c].sent = solo.sent

\* both connections are recording at once, one of them in a silence run
C16_Witness ==
    /\ conns["a"].pc = "loop" /\ conns["b"].pc = "loop"
    /\ conns["a"].audio_processor.vad_state.is_recording
    /\ conns["a"].audio_processor.vad_state.silence_frames \in 1..(MAX_SILENCE_FRAMES - 1)
    /\ conns["b"].audio_processor.vad_state.is_recording
    /\ conns["b"].audio_processor.vad_state.silence_frames = 0
    /\ conns["b"].inbound = <<>>

\* the messages of runs h are the first messages of runs a
FirstOf(h, a) ==
    \/ h = <<>>
    \/ /\ Len(h) <= Len(a)
       /\ \A i \in 1..(Len(h) - 1) : h[i] = a[i]
       /\ h[Len(h)].msg = a[Len(h)].msg
       /\ h[Len(h)].n <= a[Len(h)].n

RECURSIVE Responses(_)
\* the speech results of utterances whose inference and classifier request went as in
\* outcomes, in their order
Responses(outcomes) ==
    IF outcomes = <<>> THEN <<>>
    ELSE process_complete_speech(recognize(outcomes[1].outcome), outcomes[1].reply).sends
         \o Responses(Tail(outcomes))

IsLlm(m) == m.msg_type = StrLlm

C21_SizeBounds ==
    /\ last.decoded # None => BlockLen(last.decoded[1]) <= 5760
    /\ pc = "loop" =>
           /\ BlockLen(audio_processor.audio_buffer) <= MAX_BUFFER_SIZE
           /\ audio_processor.vad_state.silence_frames <= MAX_SILENCE_FRAMES - 1
    /\ LastIngest => LastLen <= MAX_BUFFER_SIZE + 5760
    /\ last.out # None =>
           /\ BlockLen(last.out[1]) > 8000
           /\ BlockLen(last.out[1]) <= MAX_BUFFER_SIZE + 5760

\* an utterance longer than MAX_BUFFER_SIZE is returned
C21_Witness ==
    /\ LastIngest
    /\ last.out # None
    /\ BlockLen(last.out[1]) > MAX_BUFFER_SIZE

\* C22: run side by side on the same frames from their initial states, the state
\* machine of handle_socket and update_vad_state agree after every frame on the
\* recording flag, on the buffer, and on whether an utterance is handed to the
\* recognizer on that frame and with which samples.
C22_SameSegmenter ==
    pc = "loop" =>
        /\ locals.is_recording_speech = audio_processor.vad_state.is_recording
        /\ locals.audio_buffer = audio_processor.audio_buffer
        /\ last.handed = last.out

\* a frame is taken while both are idle after an overflow that left the silence run
\* and the peak energy of handle_socket as they were
C22_Witness ==
    /\ pc = "loop"
    /\ last.kind = "Binary"
    /\ last.decoded # None
    /\ ~last.pre.vad_state.is_recording
    /\ ~locals.is_recording_speech
    /\ locals.silence_frames > 0
    /\ locals.max_recorded_energy > 0
    /\ audio_processor.vad_state.silence_frames = 0
    /\ audio_processor.vad_state.max_energy = 0

RECURSIVE NoText(_)
\* runs without their text frames
NoText(runs) ==
    IF runs = <<>> THEN <<>>
    ELSE LET rest == NoText(SubSeq(runs, 1, Len(runs) - 1))
             r == runs[Len(runs)]
         IN IF r.msg.kind = "Text" THEN rest ELSE PushMsg(rest, r.msg, r.n)

\* the segmenter of an audio processor: phase, silence run, peak energy and buffer
Segmenter(ap) ==
    [is_recording |-> ap.vad_state.is_recording,
     silence_frames |-> ap.vad_state.silence_frames,
     max_energy |-> ap.vad_state.max_energy,
     audio_buffer |-> ap.audio_buffer]

\* the loop of connection c takes a text frame
TakesText(c) ==
    /\ ConnReceiving(c, "Text")
    /\ conns'[c].handled # conns[c].handled

\* connection "a" has handled the frames connection "b" has handled, and text frames
\* between them, recognition and classification having gone the same way on both
SameAudio ==
    /\ Accepted("a") /\ Accepted("b")
    /\ NoText(conns["a"].handled) = conns["b"].handled
    /\ conns["a"].outcomes = conns["b"].outcomes

\* C23: handling a text frame leaves phase, silence run, peak energy and buffer of the
\* segmenter unchanged and sends no speech result; and a connection that handles an
\* audio stream with text frames inserted has, after the same frames, the segmenter
\* state, the utterances and the speech results of a connection that handles the
\* stream without them.
C23_TextFramesInert ==
    /\ [][TakesText("a") =>
             /\ Segmenter(conns'["a"].audio_processor)
                    = Segmenter(conns["a"].audio_processor)
             /\ SelectSeq(conns'["a"].sent, IsLlm) = SelectSeq(conns["a"].sent, IsLlm)
             /\ conns'["a"].outcomes = conns["a"].outcomes]_vars
    /\ [](SameAudio =>
             /\ conns["a"].audio_processor = conns["b"].audio_processor
             /\ SelectSeq(conns["a"].sent, IsLlm) = conns["b"].sent)

\* a text frame was handled within the silence run of a recording that then ended in
\* an utterance, on the stream with text frames; the other stream gave the same
C23_Witness ==
    /\ SameAudio
    /\ Len(conns["a"].handled) = 4
    /\ conns["a"].handled[1].msg = Binary(Packet(PCM_BUFFER_LEN, 1024))
    /\ conns["a"].handled[3].msg.kind = "Text"
    /\ conns["a"].handled[2].msg = conns["a"].handled[4].msg
    /\ Len(conns["a"].outcomes) = 1
    /\ Len(conns["b"].sent) = 2
====
